---------------------------- MODULE Spec2Model ----------------------------
(***************************************************************************)
(* Resource-aware system-info sampling of the crawler SDK:                 *)
(*   - LocalEventManager (init / close / emitSystemInfoEvent and the       *)
(*     createSystemInfo / createCpuInfo / createMemoryInfo helpers),       *)
(*   - getCpuInfo and the cgroup readers it is built from,                 *)
(*   - getCgroupsVersion.                                                  *)
(* Three specifications share the module:                                  *)
(*   Spec      the event manager: timers, ticks, init/close calls          *)
(*   SpecCpu   getCpuInfo calls over one process environment               *)
(*   SpecParse getCpuQuota applied to arbitrary file contents              *)
(***************************************************************************)
EXTENDS Integers, Sequences, FiniteSets, TLC

(***************************************************************************)
(* Bounds of the model.                                                    *)
(***************************************************************************)
\* betterSetInterval objects created over one behaviour
MaxTimers == 2
\* init() / close() calls suspended in `await super.init()/close()` at once
MaxPending == 1
\* largest value of a kernel counter (in model units)
MaxCounter == 2
\* concurrent getCpuInfo calls
MaxCallers == 2
\* longest file content given to getCpuQuota in SpecParse
MaxLen == 4
\* most values and most weights given to weightedAvg
MaxHistory == 2

(***************************************************************************)
(* JavaScript numbers, as extended rationals n/d with d >= 0:              *)
(*   d > 0  a finite value,  1/0 +Infinity,  -1/0 -Infinity,  0/0 NaN.     *)
(* Rounding and the sign of zero are not modelled.                         *)
(***************************************************************************)
Abs(x) == IF x < 0 THEN -x ELSE x

Sign(x) == IF x < 0 THEN -1 ELSE IF x > 0 THEN 1 ELSE 0

RECURSIVE GCD(_, _)
GCD(a, b) == IF b = 0 THEN a ELSE GCD(b, a % b)

Num(n, d) ==
    IF d = 0 THEN [n |-> Sign(n), d |-> 0]
    ELSE LET g == GCD(Abs(n), Abs(d))
             s == Sign(d)
         IN  [n |-> s * (n \div g), d |-> s * (d \div g)]

Whole(i) == [n |-> i, d |-> 1]

NaN == [n |-> 0, d |-> 0]

IsNaN(a) == a.d = 0 /\ a.n = 0

IsFinite(a) == a.d > 0

\* a * b : common factors are cancelled across before multiplying
Mul(a, b) ==
    LET x == Num(a.n, b.d)
        y == Num(b.n, a.d)
    IN  IF a.d = 0 \/ b.d = 0 THEN Num(a.n * b.n, 0)
        ELSE Num(x.n * y.n, x.d * y.d)

\* a / b
Div(a, b) ==
    IF IsNaN(a) \/ IsNaN(b) THEN NaN
    ELSE IF b.d = 0 THEN (IF a.d = 0 THEN NaN ELSE Whole(0))
    ELSE IF a.d = 0 THEN Num(a.n * (IF b.n < 0 THEN -1 ELSE 1), 0)
    ELSE IF b.n = 0 THEN Num(a.n, 0)
    ELSE Mul(a, Num(b.d, b.n))

\* a - b
Sub(a, b) ==
    IF IsNaN(a) \/ IsNaN(b) THEN NaN
    ELSE IF a.d = 0 /\ b.d = 0 THEN (IF a.n = b.n THEN NaN ELSE a)
    ELSE IF a.d = 0 THEN a
    ELSE IF b.d = 0 THEN Num(-b.n, 0)
    ELSE Num(a.n * b.d - b.n * a.d, a.d * b.d)

\* a + b
Add(a, b) == Sub(a, IF IsNaN(b) THEN NaN ELSE [n |-> -b.n, d |-> b.d])

\* a > b : false whenever either side is NaN
Gt(a, b) ==
    IF IsNaN(a) \/ IsNaN(b) THEN FALSE
    ELSE IF a.d = 0 /\ b.d = 0 THEN a.n > b.n
    ELSE IF a.d = 0 THEN a.n > 0
    ELSE IF b.d = 0 THEN b.n < 0
    ELSE a.n * b.d > b.n * a.d

\* a === b on numbers : NaN equals nothing
NumEq(a, b) == ~IsNaN(a) /\ ~IsNaN(b) /\ a = b

\* truthiness of a number : 0 and NaN are falsy
Truthy(a) == ~(IsNaN(a) \/ (a.d > 0 /\ a.n = 0))


(***************************************************************************)
(* Texts are sequences of one-character strings. The string functions the  *)
(* readers use: trim, split(/\s+/), split('\n'), startsWith, parseInt(s,   *)
(* 10) and Number(s) (decimal integers only).                              *)
(***************************************************************************)
IsSpace(c) == c \in {" ", "\n", "\t"}

DigitValue(c) ==
    CASE c = "0" -> 0 [] c = "1" -> 1 [] c = "2" -> 2 [] c = "3" -> 3
      [] c = "4" -> 4 [] c = "5" -> 5 [] c = "6" -> 6 [] c = "7" -> 7
      [] c = "8" -> 8 [] c = "9" -> 9 [] OTHER -> -1

IsDigit(c) == DigitValue(c) >= 0

RECURSIVE trimStart(_)
trimStart(s) ==
    IF s # <<>> /\ IsSpace(Head(s)) THEN trimStart(Tail(s)) ELSE s

RECURSIVE trimEnd(_)
trimEnd(s) ==
    IF s # <<>> /\ IsSpace(s[Len(s)]) THEN trimEnd(SubSeq(s, 1, Len(s) - 1)) ELSE s

trim(s) == trimEnd(trimStart(s))

\* the first index from i on whose character is not a separator
RECURSIVE skipSeparators(_, _, _)
skipSeparators(s, isSep(_), i) ==
    IF i <= Len(s) /\ isSep(s[i]) THEN skipSeparators(s, isSep, i + 1) ELSE i

\* s.split(sep) for a separator class, from the field that starts at `start`
\* and has been scanned up to i: `run` tells whether a run of separators
\* counts as one (/\s+/) or each separator splits ('\n').
RECURSIVE splitBy(_, _, _, _, _)
splitBy(s, isSep(_), run, start, i) ==
    IF i > Len(s) THEN <<SubSeq(s, start, Len(s))>>
    ELSE IF isSep(s[i])
         THEN LET next == IF run THEN skipSeparators(s, isSep, i) ELSE i + 1
              IN  <<SubSeq(s, start, i - 1)>> \o splitBy(s, isSep, run, next, next)
         ELSE splitBy(s, isSep, run, start, i + 1)

splitWhitespace(s) == splitBy(s, IsSpace, TRUE, 1, 1)

IsNewline(c) == c = "\n"

splitLines(s) == splitBy(s, IsNewline, FALSE, 1, 1)

startsWith(s, prefix) ==
    Len(s) >= Len(prefix) /\ SubSeq(s, 1, Len(prefix)) = prefix

\* the value of the longest run of digits that starts s, after `acc`
RECURSIVE digitsValue(_, _)
digitsValue(s, acc) ==
    IF s # <<>> /\ IsDigit(Head(s))
    THEN digitsValue(Tail(s), 10 * acc + DigitValue(Head(s)))
    ELSE acc

parseInt(text) ==
    LET s == trimStart(text)
        negative == s # <<>> /\ Head(s) = "-"
        body == IF s # <<>> /\ Head(s) \in {"-", "+"} THEN Tail(s) ELSE s
    IN  IF body = <<>> \/ ~IsDigit(Head(body)) THEN NaN
        ELSE Whole((IF negative THEN -1 ELSE 1) * digitsValue(body, 0))

\* Number(text); Number(undefined) is NaN
Undefined == <<"undefined">>

ToNumber(text) ==
    LET s == trim(text)
        negative == s # <<>> /\ Head(s) = "-"
        body == IF s # <<>> /\ Head(s) \in {"-", "+"} THEN Tail(s) ELSE s
    IN  IF text = Undefined THEN NaN
        ELSE IF s = <<>> THEN Whole(0)
        ELSE IF body # <<>> /\ \A i \in 1..Len(body) : IsDigit(body[i])
             THEN Whole((IF negative THEN -1 ELSE 1) * digitsValue(body, 0))
             ELSE NaN

\* parts[i] of an array: undefined past its end
At(parts, i) == IF i <= Len(parts) THEN parts[i] ELSE Undefined

(***************************************************************************)
(* The cgroup files and their readers. A read gives [ok |-> FALSE] when    *)
(* the file cannot be read, and [ok |-> TRUE, data |-> text] otherwise.    *)
(***************************************************************************)
CPU_FILE_PATHS ==
    [STAT   |-> [V1 |-> "/sys/fs/cgroup/cpuacct/cpuacct.usage",
                 V2 |-> "/sys/fs/cgroup/cpu.stat"],
     QUOTA  |-> [V1 |-> "/sys/fs/cgroup/cpu/cpu.cfs_quota_us",
                 V2 |-> "/sys/fs/cgroup/cpu.max"],
     PERIOD |-> [V1 |-> "/sys/fs/cgroup/cpu/cpu.cfs_period_us",
                 V2 |-> "/sys/fs/cgroup/cpu.max"]]

PROC_STAT == "/proc/stat"

CLOCK_TICKS_PER_SECOND == 100

NANOSECONDS_PER_SECOND == 1000000000

Null == [null |-> TRUE]

MAX == <<"m", "a", "x">>

\* getCpuQuota on the text read from the quota file of that version
getCpuQuotaSecondField(version, text) ==
    IF version = "V1"
    THEN LET quota == parseInt(trim(text))
         IN  IF NumEq(quota, Whole(-1)) THEN Null ELSE quota
    ELSE LET parts == splitWhitespace(trim(text))
         IN  IF parts[1] = MAX THEN Null ELSE parseInt(At(parts, 2))

getCpuQuota(version, text) ==
    IF version = "V1"
    THEN LET quota == parseInt(trim(text))
         IN  IF NumEq(quota, Whole(-1)) THEN Null ELSE quota
    ELSE LET parts == splitWhitespace(trim(text))
         IN  IF parts[1] = MAX THEN Null ELSE parseInt(parts[1])

\* getCpuPeriod on the text read from the period file of that version
getCpuPeriod(version, text) ==
    IF version = "V1"
    THEN parseInt(trim(text))
    ELSE parseInt(At(splitWhitespace(trim(text)), 2))

\* the text of the line whose key is usage_usec, as the loop finds it
RECURSIVE usageUsecOf(_)
usageUsecOf(lines) ==
    IF lines = <<>> THEN Whole(0)
    ELSE LET parts == splitWhitespace(trim(Head(lines)))
         IN  IF parts[1] = <<"u", "s", "a", "g", "e", "_", "u", "s", "e", "c">>
             THEN ToNumber(At(parts, 2))
             ELSE usageUsecOf(Tail(lines))

\* getContainerCpuUsage on the text read from the usage file of that version
getContainerCpuUsageInMicroseconds(version, data) ==
    IF version = "V1"
    THEN ToNumber(trim(data))
    ELSE usageUsecOf(splitLines(data))

getContainerCpuUsage(version, data) ==
    IF version = "V1"
    THEN ToNumber(trim(data))
    ELSE Mul(usageUsecOf(splitLines(data)), Whole(1000))

RECURSIVE sumOfNumbers(_)
sumOfNumbers(parts) ==
    IF parts = <<>> THEN Whole(0)
    ELSE Add(ToNumber(Head(parts)), sumOfNumbers(Tail(parts)))

\* getSystemCpuUsage on the text read from /proc/stat: the first line that
\* starts with 'cpu ', fields 1..7 summed, clock ticks to nanoseconds
\* (totalTicks * 1e9 / 100, evaluated as totalTicks * (1e9 / 100)).
RECURSIVE systemUsageOfDefaultsToZero(_)
systemUsageOfDefaultsToZero(lines) ==
    IF lines = <<>> THEN [ok |-> TRUE, value |-> Whole(0)]
    ELSE IF startsWith(Head(lines), <<"c", "p", "u", " ">>)
         THEN LET all == splitWhitespace(Head(lines))
                  parts == SubSeq(all, 2, IF Len(all) < 8 THEN Len(all) ELSE 8)
              IN  [ok |-> TRUE,
                   value |-> Mul(sumOfNumbers(parts),
                                 Div(Whole(NANOSECONDS_PER_SECOND),
                                     Whole(CLOCK_TICKS_PER_SECOND)))]
         ELSE systemUsageOfDefaultsToZero(Tail(lines))

RECURSIVE systemUsageOf(_)
systemUsageOf(lines) ==
    IF lines = <<>> THEN [ok |-> FALSE]
    ELSE IF startsWith(Head(lines), <<"c", "p", "u", " ">>)
         THEN LET all == splitWhitespace(Head(lines))
                  parts == SubSeq(all, 2, IF Len(all) < 8 THEN Len(all) ELSE 8)
              IN  [ok |-> TRUE,
                   value |-> Mul(sumOfNumbers(parts),
                                 Div(Whole(NANOSECONDS_PER_SECOND),
                                     Whole(CLOCK_TICKS_PER_SECOND)))]
         ELSE systemUsageOf(Tail(lines))

getSystemCpuUsage(statData) == systemUsageOf(splitLines(statData))

\* sampleCpuUsage on the outcomes of its two reads
sampleCpuUsage(version, usageRead, statRead) ==
    LET systemUsage == IF statRead.ok THEN getSystemCpuUsage(statRead.data)
                       ELSE [ok |-> FALSE]
    IN  IF usageRead.ok /\ systemUsage.ok
        THEN [ok |-> TRUE,
              value |-> [containerUsage |->
                             getContainerCpuUsage(version, usageRead.data),
                         systemUsage |-> systemUsage.value]]
        ELSE [ok |-> FALSE]

\* os.cpus() reduced to the summed idle and total ticks of all cores
RECURSIVE sumTicks(_)
sumTicks(cpusCores) ==
    IF cpusCores = <<>> THEN [idle |-> 0, total |-> 0]
    ELSE LET acc == sumTicks(SubSeq(cpusCores, 1, Len(cpusCores) - 1))
             times == cpusCores[Len(cpusCores)].times
         IN  [idle |-> acc.idle + times.idle,
              total |-> acc.total + times.user + times.nice + times.sys
                        + times.idle + times.irq]

previousTicks == [idle |-> 0, total |-> 0]

\* getCurrentCpuTicks on the value of os.cpus()
getCurrentCpuTicks(cpusCores) ==
    LET ticks == sumTicks(cpusCores)
        idleTicksDelta == ticks.idle - previousTicks.idle
        totalTicksDelta == ticks.total - previousTicks.total
    IN  IF Truthy(Whole(totalTicksDelta))
        THEN Sub(Whole(1), Div(Whole(idleTicksDelta), Whole(totalTicksDelta)))
        ELSE Whole(0)

\* getCpuInfo from the sample on: the deltas against previousSample, the new
\* previousSample and the value returned
cpuUsageWritesOneHalf(prev, sample, numCpus, quota, period) ==
    LET cpuAllowance == Div(quota, period)
        containerDelta == Sub(sample.containerUsage, prev.containerUsage)
        systemDelta == Sub(sample.systemUsage, prev.systemUsage)
    IN  [previousSample |-> [containerUsage |-> sample.containerUsage,
                             systemUsage |-> prev.systemUsage],
         value |-> Div(Mul(Mul(Div(containerDelta, systemDelta), Whole(numCpus)),
                           Whole(100)),
                       cpuAllowance)]

cpuUsageKeepsPrevious(prev, sample, numCpus, quota, period) ==
    LET cpuAllowance == Div(quota, period)
        containerDelta == Sub(sample.containerUsage, prev.containerUsage)
        systemDelta == Sub(sample.systemUsage, prev.systemUsage)
    IN  [previousSample |-> prev,
         value |-> Div(Mul(Mul(Div(containerDelta, systemDelta), Whole(numCpus)),
                           Whole(100)),
                       cpuAllowance)]

cpuUsage(prev, sample, numCpus, quota, period) ==
    LET cpuAllowance == Div(quota, period)
        containerDelta == Sub(sample.containerUsage, prev.containerUsage)
        systemDelta == Sub(sample.systemUsage, prev.systemUsage)
    IN  [previousSample |-> sample,
         value |-> Div(Mul(Mul(Div(containerDelta, systemDelta), Whole(numCpus)),
                           Whole(100)),
                       cpuAllowance)]

(***************************************************************************)
(* The kernel's side of the files: decimal texts of its counters.          *)
(***************************************************************************)
RECURSIVE NatText(_)
NatText(n) ==
    LET digit == <<"0", "1", "2", "3", "4", "5", "6", "7", "8", "9">>[(n % 10) + 1]
    IN  IF n < 10 THEN <<digit>> ELSE Append(NatText(n \div 10), digit)

IntText(i) == IF i < 0 THEN <<"-">> \o NatText(-i) ELSE NatText(i)

RECURSIVE joinFields(_)
joinFields(fields) ==
    IF Len(fields) = 1 THEN fields[1]
    ELSE fields[1] \o <<" ">> \o joinFields(Tail(fields))

\* nanoseconds and microseconds in one clock tick
NsPerTick == NANOSECONDS_PER_SECOND \div CLOCK_TICKS_PER_SECOND

UsecPerTick == NsPerTick \div 1000

\* cpuacct.usage: the container's CPU time in nanoseconds
CpuacctUsageText(ticks) == IntText(ticks * NsPerTick) \o <<"\n">>

\* cpu.stat: usage_usec is its first line
CpuStatText(ticks) ==
    <<"u", "s", "a", "g", "e", "_", "u", "s", "e", "c", " ">>
        \o IntText(ticks * UsecPerTick) \o <<"\n">>
        \o <<"n", "r", "_", "p", "e", "r", "i", "o", "d", "s", " ", "0", "\n">>

\* /proc/stat: the aggregate line (user nice system idle iowait irq softirq
\* steal), then the line of core 0
ProcStatText(user, idle) ==
    <<"c", "p", "u", " ", " ">>
        \o joinFields(<<IntText(user), <<"0">>, <<"0">>, IntText(idle), <<"0">>,
                        <<"0">>, <<"0">>, <<"7">>>>) \o <<"\n">>
        \o <<"c", "p", "u", "0", " ">> \o IntText(user) \o <<"\n">>

(***************************************************************************)
(* State.                                                                  *)
(***************************************************************************)
VARIABLES
    \* ---- LocalEventManager (Spec) ----
    initialized,      \* EventManager.initialized
    intervals,        \* this.intervals.systemInfo : a timer id, 0 = undefined
    timers,           \* the betterSetInterval objects: isRunning, pending timeout
    tick,             \* per timer, the emitSystemInfoEvent call in flight
    pendingInit,      \* init() calls suspended in `await super.init()`
    pendingClose,     \* close() calls suspended in `await super.close()`
    maxUsedCpuRatio,  \* this.config.get('maxUsedCpuRatio')
    emitted,          \* the SYSTEM_INFO event the last step handed to the subscribers
    closeCalled,      \* history: close() was called and no init() since
    overlapped,       \* history: init()/close() was called while another was pending
    \* ---- getCpuInfo (SpecCpu) ----
    env,              \* the process environment: platform, variables, cgroup files
    kernel,           \* the kernel's counters, as of the last read
    cgroupsVersion,   \* _cgroupsVersion, the memo of getCgroupsVersion
    previousSample,   \* previousSample
    calls,            \* per caller, the getCpuInfo call in flight
    returned,         \* the getCpuInfo call the last step completed
    lastTicks,        \* history: the ticks the previous getCurrentCpuTicks summed
    lastSample,       \* history: the sample of the previous call that took one
    \* ---- getCpuQuota (SpecParse) ----
    parseIn,          \* the cgroup version and the text of the quota file
    parseOut,         \* what getCpuQuota returned for it
    \* ---- weightedAvg, isDocker, isContainerised (SpecUtils) ----
    utilsIn,          \* the function called and what it is given
    utilsOut          \* what it returned

mvars == <<initialized, intervals, timers, tick, pendingInit, pendingClose,
           maxUsedCpuRatio, emitted, closeCalled, overlapped>>

cvars == <<env, kernel, cgroupsVersion, previousSample, calls, returned,
           lastTicks, lastSample>>

pvars == <<parseIn, parseOut>>

uvars == <<utilsIn, utilsOut>>

vars == <<mvars, cvars, pvars, uvars>>

TimerIds == 1..MaxTimers

EmptyObject == [k \in {} |-> 0]

(***************************************************************************)
(* Outcomes of the two samplers behind the mocking seams _getCpuInfo and   *)
(* _getMemoryInfo: a resolved value or a rejection.                        *)
(***************************************************************************)
Rejected == [ok |-> FALSE]

Resolved(v) == [ok |-> TRUE, value |-> v]

CpuOutcomes ==
    {Rejected} \cup {Resolved(r) : r \in {Num(1, 2), Whole(1)}}

MemOutcomes ==
    {Rejected, Resolved([mainProcessBytes |-> 2, childProcessesBytes |-> 1])}

MaxUsedCpuRatios == {Num(1, 2)}

(***************************************************************************)
(* createCpuInfo: the try/catch around _getCpuInfo. `threw` tells whether  *)
(* the call rejects; `fields` is the object it resolves to.                *)
(***************************************************************************)
createCpuInfoNoCatch(outcome, options) ==
    IF outcome.ok
    THEN [threw |-> FALSE,
          fields |-> [cpuCurrentUsage |-> Mul(outcome.value, Whole(100)),
                      isCpuOverloaded |-> Gt(outcome.value, options.maxUsedCpuRatio)]]
    ELSE [threw |-> TRUE, fields |-> EmptyObject]

createCpuInfoGte(outcome, options) ==
    IF outcome.ok
    THEN [threw |-> FALSE,
          fields |-> [cpuCurrentUsage |-> Mul(outcome.value, Whole(100)),
                      isCpuOverloaded |->
                          ~IsNaN(outcome.value)
                          /\ ~Gt(options.maxUsedCpuRatio, outcome.value)]]
    ELSE [threw |-> FALSE, fields |-> EmptyObject]

createCpuInfo(outcome, options) ==
    IF outcome.ok
    THEN [threw |-> FALSE,
          fields |-> [cpuCurrentUsage |-> Mul(outcome.value, Whole(100)),
                      isCpuOverloaded |-> Gt(outcome.value, options.maxUsedCpuRatio)]]
    ELSE [threw |-> FALSE, fields |-> EmptyObject]

(***************************************************************************)
(* createMemoryInfo: the try/catch around _getMemoryInfo.                  *)
(***************************************************************************)
createMemoryInfo(outcome) ==
    IF outcome.ok
    THEN [threw |-> FALSE,
          fields |-> [memCurrentBytes |->
                          outcome.value.mainProcessBytes
                          + outcome.value.childProcessesBytes]]
    ELSE [threw |-> FALSE, fields |-> EmptyObject]

(***************************************************************************)
(* createSystemInfo: { createdAt, ...cpu, ...mem }; later spreads win.     *)
(***************************************************************************)
createSystemInfoAllOrNothing(cpuFields, memFields) ==
    IF cpuFields = EmptyObject \/ memFields = EmptyObject
    THEN [createdAt |-> "now"]
    ELSE memFields @@ cpuFields @@ [createdAt |-> "now"]

createSystemInfo(cpuFields, memFields) ==
    memFields @@ cpuFields @@ [createdAt |-> "now"]

(***************************************************************************)
(* One emitSystemInfoEvent call. pc:                                       *)
(*   idle      no call in flight for this timer                            *)
(*   cpu       suspended in `await this._getCpuInfo()`                     *)
(*   mem       suspended in `await this._getMemoryInfo()`                  *)
(*   built     createSystemInfo resolved, emitSystemInfoEvent not resumed  *)
(*   rejected  the call rejected: nothing emitted, callback never called   *)
(***************************************************************************)
IdleTick ==
    [pc |-> "idle", options |-> [maxUsedCpuRatio |-> Whole(0)],
     cpuOutcome |-> Rejected, memOutcome |-> Rejected,
     cpu |-> EmptyObject, info |-> EmptyObject, afterClose |-> FALSE]

\* emitSystemInfoEvent up to its first suspension: the options are read, the
\* snapshot is begun and _getCpuInfo is called.
StartedTick ==
    [IdleTick EXCEPT !.pc = "cpu",
                     !.options = [maxUsedCpuRatio |-> maxUsedCpuRatio],
                     !.afterClose = closeCalled]

InFlight(t) == tick[t].pc \notin {"idle", "rejected"}

NoEmission == [timer |-> 0]

ManagerInit ==
    /\ initialized = FALSE
    /\ intervals = 0
    /\ timers = [t \in TimerIds |-> [created |-> FALSE, isRunning |-> FALSE,
                                     armed |-> FALSE]]
    /\ tick = [t \in TimerIds |-> IdleTick]
    /\ pendingInit = 0
    /\ pendingClose = 0
    /\ maxUsedCpuRatio \in MaxUsedCpuRatios
    /\ emitted = NoEmission
    /\ closeCalled = FALSE
    /\ overlapped = FALSE


(***************************************************************************)
(* The process environments getCpuInfo is run in: the platform, the        *)
(* environment variables, the container signals, the cgroup version of     *)
(* the host and the texts of its quota and period files.                   *)
(***************************************************************************)
V1Files(quota, period) ==
    (CPU_FILE_PATHS.QUOTA.V1 :> quota) @@ (CPU_FILE_PATHS.PERIOD.V1 :> period)

V2Files(cpuMax) == (CPU_FILE_PATHS.QUOTA.V2 :> cpuMax)

\* a cpu.stat that lacks the usage_usec line
StatWithoutUsage ==
    (CPU_FILE_PATHS.STAT.V2 :>
        <<"n", "r", "_", "p", "e", "r", "i", "o", "d", "s", " ", "0", "\n">>)

\* a /proc/stat that has the lines of the cores and no aggregate line
ProcStatWithoutCpuLine ==
    (PROC_STAT :> <<"c", "p", "u", "0", " ", "1", " ", "0", "\n">>)

Environment(lambda, docker, kubernetes, override, cgroup, files) ==
    [platform |-> "linux",
     AWS_LAMBDA_FUNCTION_MEMORY_SIZE |-> lambda,
     isDocker |-> docker,
     KUBERNETES_SERVICE_HOST |-> kubernetes,
     CRAWLEE_CONTAINERISED |-> override,
     cgroup |-> cgroup,
     files |-> files,
     numCpus |-> 2]

Envs ==
    { \* serverless sandboxes that also look like containers
      Environment(TRUE, TRUE, FALSE, FALSE, "V1", V1Files(<<"2", "\n">>, <<"1", "\n">>)),
      Environment(TRUE, FALSE, TRUE, TRUE, "V2", V2Files(<<"1", " ", "1", "\n">>)),
      \* bare metal
      Environment(FALSE, FALSE, FALSE, FALSE, "V1", V1Files(<<"-", "1", "\n">>, <<"1", "\n">>)),
      \* containers without a quota
      Environment(FALSE, TRUE, FALSE, FALSE, "V1", V1Files(<<"-", "1", "\n">>, <<"1", "\n">>)),
      Environment(FALSE, FALSE, TRUE, FALSE, "V2", V2Files(<<"m", "a", "x", " ", "1", "\n">>)),
      \* containers with a quota: 2 cores, 1 core
      Environment(FALSE, TRUE, FALSE, FALSE, "V1", V1Files(<<"2", "\n">>, <<"1", "\n">>)),
      Environment(FALSE, FALSE, FALSE, TRUE, "V2", V2Files(<<"1", " ", "1", "\n">>)),
      \* a container with a quota whose cpu.stat has no usage_usec line
      Environment(FALSE, FALSE, TRUE, FALSE, "V2",
                  V2Files(<<"1", " ", "1", "\n">>) @@ StatWithoutUsage),
      \* a container with a quota where /proc/stat has no aggregate line
      Environment(FALSE, TRUE, FALSE, FALSE, "V1",
                  V1Files(<<"2", "\n">>, <<"1", "\n">>) @@ ProcStatWithoutCpuLine) }

Callers == 1..MaxCallers

NoSample == [none |-> TRUE]

NoTicks == [none |-> TRUE]

NoReturn == [settled |-> FALSE]

IdleCall ==
    [pc |-> "idle", version |-> "undefined", quota |-> Null, period |-> Null,
     sample |-> NoSample, steps |-> {}]

CpuInit ==
    /\ env \in Envs
    /\ kernel = [container |-> 0, system |-> 0, idle |-> 0, busy |-> 0]
    /\ cgroupsVersion = "undefined"
    /\ previousSample = [containerUsage |-> Whole(0), systemUsage |-> Whole(0)]
    /\ calls = [k \in Callers |-> IdleCall]
    /\ returned = NoReturn
    /\ lastTicks = NoTicks
    /\ lastSample = NoSample

\* no getCpuInfo call is made: the samplers are behind their mocking seams
CpuQuiet ==
    /\ CpuInit
    /\ env = Environment(FALSE, FALSE, FALSE, FALSE, "V1",
                         V1Files(<<"-", "1", "\n">>, <<"1", "\n">>))

Alphabet == {"-", "0", "1", " ", "\n", "m", "a", "x"}

Texts == UNION {[1..n -> Alphabet] : n \in 0..MaxLen}

NotCalled == [called |-> FALSE]

ParseInit ==
    /\ parseIn \in [cgroupsVersion : {"V1", "V2"}, text : Texts]
    /\ parseOut = NotCalled

ParseQuiet ==
    /\ parseIn = [cgroupsVersion |-> "V1", text |-> <<>>]
    /\ parseOut = NotCalled

ManagerQuiet ==
    /\ ManagerInit
    /\ maxUsedCpuRatio = Num(1, 2)

\* the values and the weights given to weightedAvg
Histories(numbers) == UNION {[1..n -> numbers] : n \in 0..MaxHistory}

WeightedAvgInputs ==
    [fn : {"weightedAvg"},
     arrValues : Histories({Whole(0), Whole(1), Whole(3)}),
     arrWeights : Histories({Whole(-1), Whole(0), Num(1, 2), Whole(1)})]

\* the outcomes of stat('/.dockerenv')
StatOutcomes == {Rejected, Resolved(Null)}

DOCKER == <<"d", "o", "c", "k", "e", "r">>

\* the outcomes of readFile('/proc/self/cgroup'): the file is missing, or it
\* names the control group of the process
CgroupTexts ==
    {before \o name \o after :
        before \in {<<>>, <<"1", ":", "/">>},
        name \in {DOCKER, <<"d", "o", "c", "k">>, <<"d", "o", "c", " ", "k", "e", "r">>,
                  <<"D", "o", "c", "k", "e", "r">>, <<>>},
        after \in {<<>>, <<"/", "a">>, <<"\n">>}}

CgroupOutcomes == {Rejected} \cup {Resolved(text) : text \in CgroupTexts}

IsDockerInputs ==
    [fn : {"isDocker"}, stat : StatOutcomes, cgroup : CgroupOutcomes]

IsContainerisedInputs ==
    [fn : {"isContainerised"}, stat : StatOutcomes, cgroup : CgroupOutcomes,
     KUBERNETES_SERVICE_HOST : BOOLEAN, CRAWLEE_CONTAINERISED : BOOLEAN]

UtilsInit ==
    /\ utilsIn \in WeightedAvgInputs \cup IsDockerInputs \cup IsContainerisedInputs
    /\ utilsOut = NotCalled

UtilsQuiet ==
    /\ utilsIn = [fn |-> "weightedAvg", arrValues |-> <<>>, arrWeights |-> <<>>]
    /\ utilsOut = NotCalled

Init == ManagerInit /\ CpuQuiet /\ ParseQuiet /\ UtilsQuiet

(***************************************************************************)
(* betterSetInterval / betterClearInterval (@apify/utilities), as used by  *)
(* init and close: the function is invoked at once, and its next           *)
(* invocation is scheduled only when it calls the callback it was given,   *)
(* provided the interval has not been cleared.                             *)
(***************************************************************************)
Created == {t \in TimerIds : timers[t].created}

NextTimer == CHOOSE t \in TimerIds \ Created : \A u \in TimerIds \ Created : t <= u

betterSetInterval(t) ==
    [timers EXCEPT ![t] = [created |-> TRUE, isRunning |-> TRUE, armed |-> FALSE]]

betterClearInterval(t) ==
    IF t = 0 THEN timers
    ELSE [timers EXCEPT ![t].isRunning = FALSE, ![t].armed = FALSE]

\* scheduleCall, run when the interval callback is called
scheduleCall(t) ==
    [timers EXCEPT ![t].armed = timers[t].isRunning]

(***************************************************************************)
(* The inherited EventManager.init and EventManager.close, up to their     *)
(* return: init marks the manager initialized; close marks it not          *)
(* initialized and then waits for the listeners of its last event.         *)
(***************************************************************************)
superInit == initialized' = TRUE

superClose == initialized' = FALSE

(***************************************************************************)
(* LocalEventManager.init, up to `await super.init()`.                     *)
(***************************************************************************)
InitCall ==
    /\ pendingInit < MaxPending
    /\ Cardinality(Created) + pendingInit < MaxTimers
    /\ IF initialized
       THEN UNCHANGED <<initialized, pendingInit, closeCalled, overlapped>>
       ELSE /\ superInit
            /\ pendingInit' = pendingInit + 1
            /\ closeCalled' = FALSE
            /\ overlapped' = (overlapped \/ pendingInit + pendingClose > 0)
    /\ UNCHANGED <<intervals, timers, tick, pendingClose, maxUsedCpuRatio>>
    /\ emitted' = NoEmission
    /\ UNCHANGED <<cvars, pvars, uvars>>

(***************************************************************************)
(* LocalEventManager.init, after `await super.init()`: the interval is     *)
(* created, which starts the first emitSystemInfoEvent at once.            *)
(***************************************************************************)
InitResume ==
    /\ pendingInit > 0
    /\ LET t == NextTimer
       IN  /\ timers' = betterSetInterval(t)
           /\ intervals' = t
           /\ tick' = [tick EXCEPT ![t] = StartedTick]
    /\ pendingInit' = pendingInit - 1
    /\ UNCHANGED <<initialized, pendingClose, maxUsedCpuRatio, closeCalled, overlapped>>
    /\ emitted' = NoEmission
    /\ UNCHANGED <<cvars, pvars, uvars>>

(***************************************************************************)
(* LocalEventManager.close, up to `await super.close()`.                   *)
(***************************************************************************)
CloseCall ==
    /\ pendingClose < MaxPending
    /\ IF ~initialized
       THEN UNCHANGED <<initialized, pendingClose, closeCalled, overlapped>>
       ELSE /\ superClose
            /\ pendingClose' = pendingClose + 1
            /\ closeCalled' = TRUE
            /\ overlapped' = (overlapped \/ pendingInit + pendingClose > 0)
    /\ UNCHANGED <<intervals, timers, tick, pendingInit, maxUsedCpuRatio>>
    /\ emitted' = NoEmission
    /\ UNCHANGED <<cvars, pvars, uvars>>

(***************************************************************************)
(* LocalEventManager.close, after `await super.close()`: when the          *)
(* inherited close resolves, the interval is cleared; when it rejects, the *)
(* rejection leaves close() at the await and line 251 is not run.          *)
(***************************************************************************)
SuperCloseOutcomes == {"resolved", "rejected"}

CloseResume ==
    /\ pendingClose > 0
    /\ \E outcome \in SuperCloseOutcomes :
         timers' = IF outcome = "resolved" THEN betterClearInterval(intervals)
                   ELSE timers
    /\ pendingClose' = pendingClose - 1
    /\ UNCHANGED <<initialized, intervals, tick, pendingInit, maxUsedCpuRatio,
                   closeCalled, overlapped>>
    /\ emitted' = NoEmission
    /\ UNCHANGED <<cvars, pvars, uvars>>

(***************************************************************************)
(* The timeout of an interval expires: emitSystemInfoEvent is called.      *)
(***************************************************************************)
TimerFire(t) ==
    /\ timers[t].armed
    /\ timers' = [timers EXCEPT ![t].armed = FALSE]
    /\ tick' = [tick EXCEPT ![t] = StartedTick]
    /\ UNCHANGED <<initialized, intervals, pendingInit, pendingClose,
                   maxUsedCpuRatio, closeCalled, overlapped>>
    /\ emitted' = NoEmission
    /\ UNCHANGED <<cvars, pvars, uvars>>

\* what events.emit(SYSTEM_INFO, info) hands to the listeners of a tick
Emission(t) ==
    [timer |-> t, info |-> tick[t].info, options |-> tick[t].options,
     cpuOutcome |-> tick[t].cpuOutcome, memOutcome |-> tick[t].memOutcome,
     afterClose |-> tick[t].afterClose, rescheduled |-> timers[t].isRunning,
     \* what a listener sees of the interval while emit() runs
     armed |-> timers[t].armed]

(***************************************************************************)
(* createCpuInfo resumes with the outcome of _getCpuInfo.                  *)
(***************************************************************************)
CpuSettleEmitsItsPart(t) ==
    /\ tick[t].pc = "cpu"
    /\ \E o \in CpuOutcomes :
         LET r == createCpuInfo(o, tick[t].options)
         IN  /\ tick' = [tick EXCEPT ![t].pc = IF r.threw THEN "rejected" ELSE "mem",
                                     ![t].cpuOutcome = o,
                                     ![t].cpu = r.fields]
             /\ emitted' = [Emission(t) EXCEPT
                                !.info = createSystemInfo(r.fields, EmptyObject),
                                !.cpuOutcome = o]
    /\ UNCHANGED <<initialized, intervals, timers, pendingInit, pendingClose,
                   maxUsedCpuRatio, closeCalled, overlapped>>
    /\ UNCHANGED <<cvars, pvars, uvars>>

CpuSettle(t) ==
    /\ tick[t].pc = "cpu"
    /\ \E o \in CpuOutcomes :
         LET r == createCpuInfo(o, tick[t].options)
         IN  tick' = [tick EXCEPT ![t].pc = IF r.threw THEN "rejected" ELSE "mem",
                                  ![t].cpuOutcome = o,
                                  ![t].cpu = r.fields]
    /\ UNCHANGED <<initialized, intervals, timers, pendingInit, pendingClose,
                   maxUsedCpuRatio, closeCalled, overlapped>>
    /\ emitted' = NoEmission
    /\ UNCHANGED <<cvars, pvars, uvars>>

(***************************************************************************)
(* createMemoryInfo resumes with the outcome of _getMemoryInfo, and        *)
(* createSystemInfo returns the snapshot.                                  *)
(***************************************************************************)
MemSettle(t) ==
    /\ tick[t].pc = "mem"
    /\ \E o \in MemOutcomes :
         LET r == createMemoryInfo(o)
         IN  tick' = [tick EXCEPT ![t].pc = IF r.threw THEN "rejected" ELSE "built",
                                  ![t].memOutcome = o,
                                  ![t].info = createSystemInfo(tick[t].cpu, r.fields)]
    /\ UNCHANGED <<initialized, intervals, timers, pendingInit, pendingClose,
                   maxUsedCpuRatio, closeCalled, overlapped>>
    /\ emitted' = NoEmission
    /\ UNCHANGED <<cvars, pvars, uvars>>

(***************************************************************************)
(* emitSystemInfoEvent resumes: events.emit(SYSTEM_INFO, info), then       *)
(* intervalCallback().                                                     *)
(***************************************************************************)
TickEmitCallbackFirst(t) ==
    /\ tick[t].pc = "built"
    /\ timers' = scheduleCall(t)
    /\ emitted' = [Emission(t) EXCEPT !.armed = timers'[t].armed]
    /\ tick' = [tick EXCEPT ![t] = IdleTick]
    /\ UNCHANGED <<initialized, intervals, pendingInit, pendingClose,
                   maxUsedCpuRatio, closeCalled, overlapped>>
    /\ UNCHANGED <<cvars, pvars, uvars>>

TickEmit(t) ==
    /\ tick[t].pc = "built"
    /\ emitted' = Emission(t)
    /\ timers' = scheduleCall(t)
    /\ tick' = [tick EXCEPT ![t] = IdleTick]
    /\ UNCHANGED <<initialized, intervals, pendingInit, pendingClose,
                   maxUsedCpuRatio, closeCalled, overlapped>>
    /\ UNCHANGED <<cvars, pvars, uvars>>

Next ==
    \/ InitCall
    \/ InitResume
    \/ CloseCall
    \/ CloseResume
    \/ \E t \in TimerIds : TimerFire(t)
    \/ \E t \in TimerIds : CpuSettle(t)
    \/ \E t \in TimerIds : MemSettle(t)
    \/ \E t \in TimerIds : TickEmit(t)

Spec == Init /\ [][Next]_vars


(***************************************************************************)
(* getCpuInfo. A call is a chain of continuations; pc names the await it   *)
(* is suspended in:                                                        *)
(*   idle             no call in flight for this caller                    *)
(*   isContainerised  `await isContainerised()`                            *)
(*   access           `await access(...)` inside getCgroupsVersion         *)
(*   quota            the read inside getCpuQuota                          *)
(*   period           the read inside getCpuPeriod                         *)
(*   sample           the two reads inside sampleCpuUsage                  *)
(*   sampled          sampleCpuUsage has its values, getCpuInfo not resumed*)
(* A counter of the kernel is read as some value not below its last read.  *)
(***************************************************************************)
isContainerisedWithoutOverride(e) ==
    e.isDocker \/ e.KUBERNETES_SERVICE_HOST

isContainerised(e) ==
    e.isDocker \/ e.KUBERNETES_SERVICE_HOST \/ e.CRAWLEE_CONTAINERISED

\* os.cpus(): the busy ticks are on the first core, the idle ones on the last
cpus(e, k) ==
    [i \in 1..e.numCpus |->
        [times |-> [user |-> IF i = 1 THEN k.busy ELSE 0, nice |-> 0, sys |-> 0,
                    idle |-> IF i = e.numCpus THEN k.idle ELSE 0, irq |-> 0]]]

\* the files that exist: the quota and period files and the usage file of the
\* host's cgroup version, and /proc/stat
readFile(e, k, path) ==
    IF path \in DOMAIN e.files
    THEN [ok |-> TRUE, data |-> e.files[path]]
    ELSE IF path = CPU_FILE_PATHS.STAT[e.cgroup]
    THEN [ok |-> TRUE,
          data |-> IF e.cgroup = "V1" THEN CpuacctUsageText(k.container)
                   ELSE CpuStatText(k.container)]
    ELSE IF path = PROC_STAT
    THEN [ok |-> TRUE, data |-> ProcStatText(k.system, 0)]
    ELSE [ok |-> FALSE]

\* access('/sys/fs/cgroup/memory/') succeeds on a cgroup V1 host only
access(e) == e.cgroup = "V1"

Return(k, ok, value, path, call, ticks) ==
    [settled |-> TRUE, ok |-> ok, value |-> value, path |-> path,
     steps |-> call.steps, version |-> call.version, quota |-> call.quota,
     period |-> call.period, sample |-> call.sample,
     against |-> lastSample, ticks |-> ticks, ticksBefore |-> lastTicks]

\* `return getCurrentCpuTicks()`
ReturnHostTicks(k, path, call) ==
    \E idle \in kernel.idle..MaxCounter, busy \in kernel.busy..MaxCounter :
        LET now == [kernel EXCEPT !.idle = idle, !.busy = busy]
            cpusCores == cpus(env, now)
            done == [call EXCEPT !.steps = @ \cup {"getCurrentCpuTicks"}]
        IN  /\ kernel' = now
            /\ returned' = Return(k, TRUE, getCurrentCpuTicks(cpusCores), path,
                                  done, sumTicks(cpusCores))
            /\ lastTicks' = sumTicks(cpusCores)
            /\ calls' = [calls EXCEPT ![k] = IdleCall]
            /\ UNCHANGED <<previousSample, lastSample>>

\* a read rejected: the rejection leaves getCpuInfo
RejectResetsPreviousSample(k, call) ==
    /\ returned' = Return(k, FALSE, NaN, "rejected", call, NoTicks)
    /\ calls' = [calls EXCEPT ![k] = IdleCall]
    /\ previousSample' = [containerUsage |-> Whole(0), systemUsage |-> Whole(0)]
    /\ UNCHANGED <<lastTicks, lastSample>>

Reject(k, call) ==
    /\ returned' = Return(k, FALSE, NaN, "rejected", call, NoTicks)
    /\ calls' = [calls EXCEPT ![k] = IdleCall]
    /\ UNCHANGED <<previousSample, lastTicks, lastSample>>

Suspend(k, call) ==
    /\ calls' = [calls EXCEPT ![k] = call]
    /\ returned' = NoReturn
    /\ UNCHANGED <<previousSample, lastTicks, lastSample>>

\* getCpuInfo is called: lines 180-188. The calls in flight are
\* interchangeable, so a new call takes the first free place.
GetCpuInfoCallContainerFirst(k) ==
    /\ calls[k].pc = "idle"
    /\ \A j \in 1..(k - 1) : calls[j].pc # "idle"
    /\ Suspend(k, [calls[k] EXCEPT !.pc = "isContainerised",
                                   !.steps = @ \cup {"isContainerised"}])
    /\ UNCHANGED <<kernel, env, cgroupsVersion, mvars, pvars, uvars>>

GetCpuInfoCall(k) ==
    /\ calls[k].pc = "idle"
    /\ \A j \in 1..(k - 1) : calls[j].pc # "idle"
    /\ LET isLambdaEnvironment ==
               env.platform = "linux" /\ env.AWS_LAMBDA_FUNCTION_MEMORY_SIZE
       IN  IF isLambdaEnvironment
           THEN ReturnHostTicks(k, "lambda", calls[k])
           ELSE Suspend(k, [calls[k] EXCEPT !.pc = "isContainerised",
                                            !.steps = @ \cup {"isContainerised"}])
                /\ UNCHANGED kernel
    /\ UNCHANGED <<env, cgroupsVersion, mvars, pvars, uvars>>

\* a getCgroupsVersion without line 9: every call stores 'V1' and probes
ResumeIsContainerisedProbesAgain(k) ==
    /\ calls[k].pc = "isContainerised"
    /\ IF isContainerised(env)
       THEN /\ cgroupsVersion' = "V1"
            /\ Suspend(k, [calls[k] EXCEPT
                    !.pc = "access",
                    !.steps = @ \cup {"getCgroupsVersion"}])
            /\ UNCHANGED kernel
       ELSE /\ ReturnHostTicks(k, "bare", calls[k])
            /\ UNCHANGED cgroupsVersion
    /\ UNCHANGED <<env, mvars, pvars, uvars>>

\* isContainerised() has resolved: lines 182-190 and 213-214, and
\* getCgroupsVersion up to its await (lines 9-15)
ResumeIsContainerised(k) ==
    /\ calls[k].pc = "isContainerised"
    /\ IF isContainerised(env)
       THEN IF cgroupsVersion # "undefined"
            THEN /\ Suspend(k, [calls[k] EXCEPT
                         !.pc = "quota",
                         !.version = cgroupsVersion,
                         !.steps = @ \cup {"getCgroupsVersion"}])
                 /\ UNCHANGED <<kernel, cgroupsVersion>>
            ELSE /\ cgroupsVersion' = "V1"
                 /\ Suspend(k, [calls[k] EXCEPT
                         !.pc = "access",
                         !.steps = @ \cup {"getCgroupsVersion"}])
                 /\ UNCHANGED kernel
       ELSE /\ ReturnHostTicks(k, "bare", calls[k])
            /\ UNCHANGED cgroupsVersion
    /\ UNCHANGED <<env, mvars, pvars, uvars>>

\* access() has settled: getCgroupsVersion lines 16-19
ResumeAccess(k) ==
    /\ calls[k].pc = "access"
    /\ cgroupsVersion' = IF access(env) THEN cgroupsVersion ELSE "V2"
    /\ Suspend(k, [calls[k] EXCEPT !.pc = "quota", !.version = cgroupsVersion'])
    /\ UNCHANGED <<env, kernel, mvars, pvars, uvars>>

\* getCpuQuota and getCpuPeriod in environment e with cgroup version v: the
\* outcome is a function of these two, tabulated
NoCounters == [container |-> 0, system |-> 0, idle |-> 0, busy |-> 0]

getCpuQuotaAt ==
    [e \in Envs, v \in {"V1", "V2"} |->
        LET read == readFile(e, NoCounters, CPU_FILE_PATHS.QUOTA[v])
        IN  IF read.ok THEN [ok |-> TRUE, value |-> getCpuQuota(v, read.data)]
            ELSE [ok |-> FALSE]] @@ <<>>

getCpuPeriodAt ==
    [e \in Envs, v \in {"V1", "V2"} |->
        LET read == readFile(e, NoCounters, CPU_FILE_PATHS.PERIOD[v])
        IN  IF read.ok THEN [ok |-> TRUE, value |-> getCpuPeriod(v, read.data)]
            ELSE [ok |-> FALSE]] @@ <<>>

\* the quota file has been read: getCpuQuota and lines 192-196
ResumeQuota(k) ==
    /\ calls[k].pc = "quota"
    /\ LET read == getCpuQuotaAt[env, calls[k].version]
           call == [calls[k] EXCEPT !.steps = @ \cup {"getCpuQuota"}]
       IN  IF ~read.ok
           THEN Reject(k, call) /\ UNCHANGED kernel
           ELSE LET quota == read.value
                IN  IF quota = Null
                    THEN ReturnHostTicks(k, "unlimited", call)
                    ELSE Suspend(k, [call EXCEPT !.pc = "period", !.quota = quota])
                         /\ UNCHANGED kernel
    /\ UNCHANGED <<env, cgroupsVersion, mvars, pvars, uvars>>

\* the period file has been read: getCpuPeriod and lines 197-201
ResumePeriod(k) ==
    /\ calls[k].pc = "period"
    /\ LET read == getCpuPeriodAt[env, calls[k].version]
           call == [calls[k] EXCEPT !.steps = @ \cup {"getCpuPeriod"}]
       IN  IF ~read.ok
           THEN Reject(k, call)
           ELSE Suspend(k, [call EXCEPT !.pc = "sample", !.period = read.value])
    /\ UNCHANGED <<env, kernel, cgroupsVersion, mvars, pvars, uvars>>

\* sampleCpuUsage in environment e with cgroup version v, when the kernel's
\* counters read c and s: the outcome is a function of these four, tabulated
sampleCpuUsageAt ==
    [e \in Envs, v \in {"V1", "V2"}, c \in 0..MaxCounter, s \in 0..MaxCounter |->
        LET now == [container |-> c, system |-> s, idle |-> 0, busy |-> 0]
        IN  sampleCpuUsage(v, readFile(e, now, CPU_FILE_PATHS.STAT[v]),
                           readFile(e, now, PROC_STAT))] @@ <<>>

\* what a counter may read when the file at path is read, having read
\* `last` before: a file that does not show the counter leaves it as it was
CounterRead(path, last) ==
    IF path \in DOMAIN env.files \/ ~readFile(env, kernel, path).ok THEN {last}
    ELSE last..MaxCounter

\* the usage file and /proc/stat have been read: sampleCpuUsage. A readFile
\* of a file that is there can still reject (EIO, EMFILE, the cgroup being
\* removed), and Promise.all then rejects with it.
SampleCpuUsage(k) ==
    /\ calls[k].pc = "sample"
    /\ LET call == [calls[k] EXCEPT !.steps = @ \cup {"sampleCpuUsage"}]
       IN  \/ \E container \in CounterRead(CPU_FILE_PATHS.STAT[calls[k].version],
                                           kernel.container),
                 system \in CounterRead(PROC_STAT, kernel.system) :
                LET now == [kernel EXCEPT !.container = container, !.system = system]
                    sample == sampleCpuUsageAt[env, call.version, container, system]
                IN  /\ kernel' = now
                    /\ IF ~sample.ok
                       THEN Reject(k, call)
                       ELSE Suspend(k, [call EXCEPT !.pc = "sampled",
                                                    !.sample = sample.value])
           \/ Reject(k, call) /\ UNCHANGED kernel
    /\ UNCHANGED <<env, cgroupsVersion, mvars, pvars, uvars>>

\* getCpuInfo resumes with the sample: lines 203-211
ResumeSample(k) ==
    /\ calls[k].pc = "sampled"
    /\ LET r == cpuUsage(previousSample, calls[k].sample, Len(cpus(env, kernel)),
                         calls[k].quota, calls[k].period)
       IN  /\ previousSample' = r.previousSample
           /\ returned' = Return(k, TRUE, r.value, "quota", calls[k], NoTicks)
    /\ lastSample' = calls[k].sample
    /\ calls' = [calls EXCEPT ![k] = IdleCall]
    /\ UNCHANGED <<env, kernel, cgroupsVersion, lastTicks, mvars, pvars, uvars>>

NextCpu ==
    \/ \E k \in Callers : GetCpuInfoCall(k)
    \/ \E k \in Callers : ResumeIsContainerised(k)
    \/ \E k \in Callers : ResumeAccess(k)
    \/ \E k \in Callers : ResumeQuota(k)
    \/ \E k \in Callers : ResumePeriod(k)
    \/ \E k \in Callers : SampleCpuUsage(k)
    \/ \E k \in Callers : ResumeSample(k)

InitCpu == ManagerQuiet /\ CpuInit /\ ParseQuiet /\ UtilsQuiet

SpecCpu == InitCpu /\ [][NextCpu]_vars

(***************************************************************************)
(* getCpuQuota applied to the text of a quota file.                        *)
(***************************************************************************)
GetCpuQuotaCall ==
    /\ ~parseOut.called
    /\ parseOut' = [called |-> TRUE,
                    value |-> getCpuQuota(parseIn.cgroupsVersion, parseIn.text)]
    /\ UNCHANGED <<parseIn, mvars, cvars, uvars>>

NextParse == GetCpuQuotaCall

InitParse == ManagerQuiet /\ CpuQuiet /\ ParseInit /\ UtilsQuiet

SpecParse == InitParse /\ [][NextParse]_vars

(***************************************************************************)
(* weightedAvg: each value is paired with the weight at its index, the     *)
(* products and the weights of the pairs are summed from [0, 0], and the   *)
(* first sum is divided by the second. A value that has no weight is       *)
(* multiplied by undefined, which gives NaN.                               *)
(***************************************************************************)
RECURSIVE weightedSums(_, _, _)
weightedSums(arrValues, arrWeights, n) ==
    IF n = 0 THEN <<Whole(0), Whole(0)>>
    ELSE LET p == weightedSums(arrValues, arrWeights, n - 1)
             weight == IF n <= Len(arrWeights) THEN arrWeights[n] ELSE NaN
         IN  <<Add(p[1], Mul(arrValues[n], weight)), Add(p[2], weight)>>

weightedAvgOverAllWeights(arrValues, arrWeights) ==
    LET result == weightedSums(arrValues, arrWeights, Len(arrValues))
        weights == weightedSums(arrWeights, arrWeights, Len(arrWeights))
    IN  Div(result[1], weights[2])

weightedAvg(arrValues, arrWeights) ==
    LET result == weightedSums(arrValues, arrWeights, Len(arrValues))
    IN  Div(result[1], result[2])

(***************************************************************************)
(* isDocker: the marker file can be stat-ed, or the cgroup description of  *)
(* the process contains 'docker'. A read that fails counts as a negative   *)
(* answer. `threw` tells whether the call rejects.                         *)
(***************************************************************************)
\* String.prototype.includes from position i on
RECURSIVE includesFrom(_, _, _)
includesFrom(text, searchString, i) ==
    IF i + Len(searchString) - 1 > Len(text) THEN FALSE
    ELSE IF SubSeq(text, i, i + Len(searchString) - 1) = searchString THEN TRUE
    ELSE includesFrom(text, searchString, i + 1)

includes(text, searchString) == includesFrom(text, searchString, 1)

isDockerStatErrorEscapes(stat, cgroup) ==
    IF ~stat.ok THEN [threw |-> TRUE]
    ELSE [threw |-> FALSE, value |-> TRUE]

isDocker(stat, cgroup) ==
    [threw |-> FALSE,
     value |-> stat.ok \/ (cgroup.ok /\ includes(cgroup.value, DOCKER))]

IsDockerCall ==
    /\ utilsIn.fn = "isDocker"
    /\ ~utilsOut.called
    /\ LET r == isDocker(utilsIn.stat, utilsIn.cgroup)
       IN  utilsOut' = IF r.threw THEN [called |-> TRUE, threw |-> TRUE]
                       ELSE [called |-> TRUE, threw |-> FALSE, value |-> r.value]
    /\ UNCHANGED <<utilsIn, mvars, cvars, pvars>>

\* isContainerised awaits isDocker and then looks at the two variables
IsContainerisedCall ==
    /\ utilsIn.fn = "isContainerised"
    /\ ~utilsOut.called
    /\ LET r == isDocker(utilsIn.stat, utilsIn.cgroup)
       IN  utilsOut' =
               IF r.threw THEN [called |-> TRUE, threw |-> TRUE]
               ELSE [called |-> TRUE, threw |-> FALSE,
                     value |-> isContainerised(
                         [isDocker |-> r.value,
                          KUBERNETES_SERVICE_HOST |-> utilsIn.KUBERNETES_SERVICE_HOST,
                          CRAWLEE_CONTAINERISED |-> utilsIn.CRAWLEE_CONTAINERISED])]
    /\ UNCHANGED <<utilsIn, mvars, cvars, pvars>>

WeightedAvgCall ==
    /\ utilsIn.fn = "weightedAvg"
    /\ ~utilsOut.called
    /\ utilsOut' = [called |-> TRUE,
                    value |-> weightedAvg(utilsIn.arrValues, utilsIn.arrWeights)]
    /\ UNCHANGED <<utilsIn, mvars, cvars, pvars>>

NextUtils ==
    \/ WeightedAvgCall
    \/ IsDockerCall
    \/ IsContainerisedCall

InitUtils == ManagerQuiet /\ CpuQuiet /\ ParseQuiet /\ UtilsInit

SpecUtils == InitUtils /\ [][NextUtils]_vars

(***************************************************************************)
(* The event loop runs every continuation that is ready, and a sampler     *)
(* call settles (it resolves or it rejects; it does not hang).             *)
(***************************************************************************)
FairSpec ==
    /\ Spec
    /\ \A t \in TimerIds :
         /\ WF_vars(CpuSettle(t))
         /\ WF_vars(MemSettle(t))
         /\ WF_vars(TickEmit(t))

(***************************************************************************)
(* Claims about the LocalEventManager (Spec, FairSpec)                     *)
(***************************************************************************)

\* C1: for one LocalEventManager at most one emitSystemInfoEvent tick is in
\* progress at any moment: no tick is started while another tick's sampling
\* has not completed. Stated for the managers whose init() and close() calls
\* were each made after the previous one had returned.
C1_AtMostOneTickInProgress ==
    ~overlapped => Cardinality({t \in TimerIds : InFlight(t)}) <= 1

\* C2: once close() has been called on an initialized manager, the only
\* SYSTEM_INFO emission that may still occur is that of a tick which was
\* already in flight when close() was called: no emitted snapshot belongs to
\* a tick that started after the call. Stated for the managers whose init()
\* and close() calls were each made after the previous one had returned.
C2_NoEmissionOfTickStartedAfterClose ==
    (~overlapped /\ emitted.timer # 0) => ~emitted.afterClose

\* C3: the CPU and memory samplers fail independently: every emitted snapshot
\* has createdAt, has cpuCurrentUsage and isCpuOverloaded exactly when the CPU
\* sampler succeeded and memCurrentBytes exactly when the memory sampler
\* succeeded, and no sampler failure aborts the tick.
C3_SamplersFailIndependently ==
    /\ \A t \in TimerIds : tick[t].pc # "rejected"
    /\ emitted.timer # 0 =>
         /\ "createdAt" \in DOMAIN emitted.info
         /\ ("cpuCurrentUsage" \in DOMAIN emitted.info) <=> emitted.cpuOutcome.ok
         /\ ("isCpuOverloaded" \in DOMAIN emitted.info) <=> emitted.cpuOutcome.ok
         /\ ("memCurrentBytes" \in DOMAIN emitted.info) <=> emitted.memOutcome.ok

\* C3 witness: a snapshot is emitted by a tick whose CPU sampler failed and
\* whose memory sampler succeeded.
C3_Witness ==
    /\ emitted.timer # 0
    /\ ~emitted.cpuOutcome.ok
    /\ emitted.memOutcome.ok
    /\ DOMAIN emitted.info = {"createdAt", "memCurrentBytes"}

\* C4: sampler failures never escape the aggregator or stop the timer: every
\* started tick eventually publishes its snapshot, and, unless the interval
\* was cleared, the next tick is then scheduled.
C4_EveryTickPublishesAndReschedules ==
    \A t \in TimerIds :
        (tick[t].pc = "cpu") ~>
            (/\ emitted.timer = t
             /\ tick[t].pc = "idle"
             /\ timers[t].isRunning => timers[t].armed)

\* C4 witness: a tick whose samplers both failed has published its snapshot
\* and the next tick is scheduled.
C4_Witness ==
    /\ emitted.timer # 0
    /\ ~emitted.cpuOutcome.ok
    /\ ~emitted.memOutcome.ok
    /\ timers[emitted.timer].armed

\* C5: every emitted snapshot that carries CPU fields satisfies
\* isCpuOverloaded = (cpuCurrentUsage / 100 > maxUsedCpuRatio), with the
\* maxUsedCpuRatio read at that tick.
C5_OverloadedIffUsageAboveRatio ==
    (emitted.timer # 0 /\ "cpuCurrentUsage" \in DOMAIN emitted.info) =>
        emitted.info.isCpuOverloaded =
            Gt(Div(emitted.info.cpuCurrentUsage, Whole(100)),
               emitted.options.maxUsedCpuRatio)

\* C5 witness: a snapshot whose usage equals the configured ratio exactly is
\* emitted, and it is not flagged as overloaded.
C5_Witness ==
    /\ emitted.timer # 0
    /\ "cpuCurrentUsage" \in DOMAIN emitted.info
    /\ Div(emitted.info.cpuCurrentUsage, Whole(100)) = emitted.options.maxUsedCpuRatio
    /\ ~emitted.info.isCpuOverloaded


(***************************************************************************)
(* Claims about getCpuInfo (SpecCpu)                                       *)
(***************************************************************************)

\* the call that settled in this step returned getCurrentCpuTicks()
HostTickReturn == returned.settled /\ returned.ok /\ returned.ticks # NoTicks

\* the call that settled in this step returned from its sample
QuotaReturn ==
    returned.settled /\ returned.ok /\ "sampleCpuUsage" \in returned.steps

\* a cumulative usage in nanoseconds, in clock ticks
TicksOf(usage) == usage.n \div NsPerTick

\* what the container and the system consumed between the sample of the
\* previous call and the sample of the call that settled in this step
ContainerDelta ==
    TicksOf(returned.sample.containerUsage) - TicksOf(returned.against.containerUsage)

SystemDelta ==
    TicksOf(returned.sample.systemUsage) - TicksOf(returned.against.systemUsage)

\* between the two samples the container consumed its allowance exactly:
\* containerDelta / systemDelta * numCpus = quota / period
ConsumedExactlyItsAllowance ==
    /\ QuotaReturn
    /\ returned.against # NoSample
    /\ SystemDelta > 0
    /\ ContainerDelta * env.numCpus * returned.period.n
         = SystemDelta * returned.quota.n

\* C6: getCpuInfo returns utilization as a fraction of the available
\* capacity in every branch, so cpuCurrentUsage is a percentage on one scale;
\* in particular a container that consumed exactly its CPU allowance gets
\* cpuCurrentUsage = 100.
C6_ExactAllowanceIsHundredPercent ==
    ConsumedExactlyItsAllowance =>
        createCpuInfo(Resolved(returned.value),
                      [maxUsedCpuRatio |-> maxUsedCpuRatio]).fields.cpuCurrentUsage
            = Whole(100)

\* 1 - idle / total over the ticks elapsed between two readings, 0 when no
\* tick elapsed
HostRatioBetween(before, now) ==
    LET idle == now.idle - before.idle
        total == now.total - before.total
    IN  IF total = 0 THEN Whole(0) ELSE Num(total - idle, total)

\* C7: on the host-tick paths, for every pair of consecutive calls the later
\* call returns 1 - (increase of idle ticks since the earlier call) /
\* (increase of total ticks since the earlier call), and 0 when no total
\* ticks elapsed between the two calls.
C7_HostRatioBetweenConsecutiveCalls ==
    (HostTickReturn /\ returned.ticksBefore # NoTicks) =>
        returned.value = HostRatioBetween(returned.ticksBefore, returned.ticks)

\* a text without the whitespace around it
Stripped(s) ==
    LET black == {i \in 1..Len(s) : ~IsSpace(s[i])}
    IN  IF black = {} THEN <<>>
        ELSE SubSeq(s, CHOOSE i \in black : \A j \in black : i <= j,
                       CHOOSE i \in black : \A j \in black : i >= j)

\* the first whitespace-separated field of a text
FirstField(s) ==
    LET t == Stripped(s)
        white == {i \in 1..Len(t) : IsSpace(t[i])}
    IN  IF white = {} THEN t
        ELSE SubSeq(t, 1, (CHOOSE i \in white : \A j \in white : i <= j) - 1)

\* the quota file of the host says "no quota"
QuotaFileUnlimited(e) ==
    IF e.cgroup = "V1"
    THEN Stripped(e.files[CPU_FILE_PATHS.QUOTA.V1]) = <<"-", "1">>
    ELSE FirstField(e.files[CPU_FILE_PATHS.QUOTA.V2]) = MAX

\* C8: when the process is containerised and the cgroup CPU quota is
\* unlimited, getCpuInfo returns the host-tick ratio, reads no period, takes
\* no cumulative sample and leaves previousSample unchanged.
C8_UnlimitedQuotaFallsBackToHostTicks ==
    (/\ returned.settled
     /\ ~env.AWS_LAMBDA_FUNCTION_MEMORY_SIZE
     /\ isContainerised(env)
     /\ QuotaFileUnlimited(env)) =>
        /\ returned.ok
        /\ returned.value = getCurrentCpuTicks(cpus(env, kernel))
        /\ returned.steps \cap {"getCpuPeriod", "sampleCpuUsage"} = {}
        /\ previousSample = [containerUsage |-> Whole(0), systemUsage |-> Whole(0)]

\* C9: with a finite quota, for two consecutive calls with samples s1 then
\* s2 (s2.systemUsage > s1.systemUsage) the second call returns exactly
\* ((s2.containerUsage - s1.containerUsage) / (s2.systemUsage -
\* s1.systemUsage)) * numCpus * 100 / (quota / period), and after each call
\* previousSample is the sample that call took.
C9_QuotaUsageFromConsecutiveSamples ==
    QuotaReturn =>
        /\ previousSample = returned.sample
        /\ (returned.against # NoSample /\ SystemDelta > 0) =>
               returned.value
                   = Num(ContainerDelta * env.numCpus * 100 * returned.period.n,
                         SystemDelta * returned.quota.n)

\* C9 witness: a second call has returned from a sample in which both the
\* container's and the system's usage grew, by different amounts.
C9_Witness ==
    /\ QuotaReturn
    /\ returned.against # NoSample
    /\ SystemDelta > 0
    /\ ContainerDelta > 0
    /\ ContainerDelta # SystemDelta
    /\ previousSample = returned.sample

(***************************************************************************)
(* Claims about getCpuQuota (SpecParse)                                    *)
(***************************************************************************)

\* a decimal integer: an optional minus sign and at least one digit
IsIntegerText(s) ==
    LET digits == IF s # <<>> /\ s[1] = "-" THEN Tail(s) ELSE s
    IN  digits # <<>> /\ \A i \in 1..Len(digits) : IsDigit(digits[i])

RECURSIVE DecimalValue(_)
DecimalValue(digits) ==
    IF digits = <<>> THEN 0
    ELSE 10 * DecimalValue(SubSeq(digits, 1, Len(digits) - 1))
         + DigitValue(digits[Len(digits)])

IntegerOf(s) == IF s[1] = "-" THEN -DecimalValue(Tail(s)) ELSE DecimalValue(s)

\* C10: getCpuQuota returns null when the V1 quota file holds -1 and when the
\* first field of the V2 cpu.max file is 'max'; for every other integer
\* content it returns that integer, taken from the whole V1 file or from the
\* first field of the V2 file.
C10_QuotaParsing ==
    parseOut.called =>
        LET field == IF parseIn.cgroupsVersion = "V1"
                     THEN Stripped(parseIn.text)
                     ELSE FirstField(parseIn.text)
        IN  /\ (parseIn.cgroupsVersion = "V2" /\ field = MAX) =>
                   parseOut.value = Null
            /\ IsIntegerText(field) =>
                   parseOut.value
                       = IF parseIn.cgroupsVersion = "V1" /\ IntegerOf(field) = -1
                         THEN Null
                         ELSE Whole(IntegerOf(field))

\* C10 witness: a V1 file holding -1 has been read as null.
C10_Witness ==
    /\ parseOut.called
    /\ parseIn.cgroupsVersion = "V1"
    /\ parseIn.text = <<"-", "1", "\n">>
    /\ parseOut.value = Null

(***************************************************************************)
(* Claims about getCgroupsVersion, as getCpuInfo calls it (SpecCpu)        *)
(***************************************************************************)

\* what the probe of this process resolves to
ProbedVersion == IF access(env) THEN "V1" ELSE "V2"

\* the call that probed has returned from getCgroupsVersion
ProbeReturned ==
    /\ cgroupsVersion # "undefined"
    /\ \A j \in Callers : calls[j].pc # "access"

\* call k enters getCgroupsVersion in this step
GetCgroupsVersionCalled(k) ==
    /\ calls[k].pc = "isContainerised"
    /\ calls'[k].pc \in {"access", "quota"}

\* C11: the call that probes returns 'V1' when access succeeded and 'V2'
\* when it failed, and a call made after that call has returned does no
\* filesystem access, leaves the stored version alone and returns the same
\* value
C11_ProbeResultIsMemoized ==
    [][\A k \in Callers :
        /\ (calls[k].pc = "access" /\ calls'[k].pc # "access") =>
              /\ calls'[k].pc = "quota"
              /\ calls'[k].version = ProbedVersion
              /\ cgroupsVersion' = ProbedVersion
        /\ (GetCgroupsVersionCalled(k) /\ ProbeReturned) =>
              /\ calls'[k].pc = "quota"
              /\ calls'[k].version = ProbedVersion
              /\ cgroupsVersion' = cgroupsVersion]_vars

\* the probe is over and two calls hold 'V2': one of them at least was
\* handed the stored version
C11_Witness ==
    /\ ProbeReturned
    /\ \E j, k \in Callers :
          /\ j # k
          /\ calls[j].pc = "quota" /\ calls[j].version = "V2"
          /\ calls[k].pc = "quota" /\ calls[k].version = "V2"

\* C12: every call of one process gets the same version, the one the probe
\* resolves to: no call holds 'V1' where the probe fails
C12_OneVersionPerProcess ==
    \A k \in Callers :
        calls[k].version # "undefined" => calls[k].version = ProbedVersion

\* getCpuInfo runs in a serverless sandbox
IsLambdaEnvironment ==
    env.platform = "linux" /\ env.AWS_LAMBDA_FUNCTION_MEMORY_SIZE

\* C13: in a serverless sandbox a getCpuInfo call returns
\* getCurrentCpuTicks() and does nothing else, whatever the container
\* signals: isContainerised and getCgroupsVersion are not called, no cgroup
\* file is read and previousSample keeps its value
C13_LambdaCheckFirst ==
    IsLambdaEnvironment =>
        /\ returned.settled =>
              /\ returned.ok
              /\ returned.value = getCurrentCpuTicks(cpus(env, kernel))
              /\ returned.steps = {"getCurrentCpuTicks"}
        /\ \A k \in Callers : calls[k].pc = "idle"
        /\ cgroupsVersion = "undefined"
        /\ previousSample = [containerUsage |-> Whole(0), systemUsage |-> Whole(0)]

\* a call has returned in a sandbox that carries container signals
C13_Witness ==
    /\ IsLambdaEnvironment
    /\ isContainerised(env)
    /\ returned.settled
    /\ returned.ok
    /\ returned.ticks.total > 0

(***************************************************************************)
(* Claims about inputs that cannot be read or parsed (SpecCpu)             *)
(***************************************************************************)

\* the lines of a file of the environment
LinesOf(e, path) == splitLines(readFile(e, kernel, path).data)

\* the container's usage file has no usage_usec line
UsageKeyAbsent(e) ==
    /\ e.cgroup = "V2"
    /\ \A i \in DOMAIN LinesOf(e, CPU_FILE_PATHS.STAT.V2) :
           FirstField(LinesOf(e, CPU_FILE_PATHS.STAT.V2)[i])
               # <<"u", "s", "a", "g", "e", "_", "u", "s", "e", "c">>

\* C14: on the finite-quota path a getCpuInfo call whose container-usage
\* input has no usage_usec key fails; it does not return a number
C14_UnparsableInputFails ==
    (returned.settled /\ UsageKeyAbsent(env)
        /\ "sampleCpuUsage" \in returned.steps) => ~returned.ok

\* /proc/stat has no line that starts with 'cpu ', whatever the counters
NoCpuLineIn ==
    [e \in Envs |->
        \A s \in 0..MaxCounter :
            LET lines == splitLines(
                    readFile(e, [NoCounters EXCEPT !.system = s], PROC_STAT).data)
            IN  \A i \in DOMAIN lines :
                    ~startsWith(lines[i], <<"c", "p", "u", " ">>)] @@ <<>>

NoCpuLine(e) == NoCpuLineIn[e]

\* the outcome of _getCpuInfo that createCpuInfo awaits
OutcomeOf(r) == IF r.ok THEN Resolved(r.value) ELSE Rejected

\* C15: when /proc/stat has no line starting with 'cpu ', getSystemCpuUsage
\* throws, the getCpuInfo call that sampled rejects, createCpuInfo resolves
\* all the same and the snapshot built from it has neither cpuCurrentUsage
\* nor isCpuOverloaded, whatever the memory sampler gives
C15_NoCpuLineOmitsCpuFields ==
    (returned.settled /\ "sampleCpuUsage" \in returned.steps /\ NoCpuLine(env)) =>
        /\ ~getSystemCpuUsage(readFile(env, kernel, PROC_STAT).data).ok
        /\ ~returned.ok
        /\ LET cpu == createCpuInfo(OutcomeOf(returned),
                                    [maxUsedCpuRatio |-> maxUsedCpuRatio])
           IN  /\ ~cpu.threw
               /\ \A o \in MemOutcomes :
                      LET info == createSystemInfo(cpu.fields,
                                                   createMemoryInfo(o).fields)
                      IN  /\ "createdAt" \in DOMAIN info
                          /\ "cpuCurrentUsage" \notin DOMAIN info
                          /\ "isCpuOverloaded" \notin DOMAIN info

\* a call has sampled where /proc/stat has no aggregate line
C15_Witness ==
    /\ returned.settled
    /\ NoCpuLine(env)
    /\ returned.steps = {"isContainerised", "getCgroupsVersion", "getCpuQuota",
                         "getCpuPeriod", "sampleCpuUsage"}

(***************************************************************************)
(* Claims about the order of emit and intervalCallback (Spec)              *)
(***************************************************************************)

\* C16: the snapshot of a tick is emitted before intervalCallback arms the
\* next tick of the interval: while the listeners of SYSTEM_INFO run, the
\* next tick is not armed, and a tick is armed only when the previous tick
\* of its interval is no longer in flight, so that the emissions of an
\* interval follow the order of its ticks
C16_EmitBeforeNextTickIsArmed ==
    /\ emitted.timer # 0 => ~emitted.armed
    /\ \A t \in TimerIds : timers[t].armed => ~InFlight(t)

\* a snapshot has been emitted and the next tick of its interval is armed
C16_Witness ==
    /\ emitted.timer # 0
    /\ ~emitted.armed
    /\ timers[emitted.timer].armed

(***************************************************************************)
(* Claims about close() (Spec)                                             *)
(***************************************************************************)

\* a close() call of an initialized manager finishes in this step
CloseFinishes == pendingClose' = pendingClose - 1

\* C17: whenever close() of an initialized manager has finished, normally
\* or with an error, no systemInfo timer remains armed. Stated for the
\* managers whose init() and close() calls were each made after the previous
\* one had returned.
C17_CloseAlwaysCancelsTheTimer ==
    [][(CloseFinishes /\ ~overlapped) =>
          \A t \in TimerIds : ~timers'[t].armed /\ ~timers'[t].isRunning]_vars

(***************************************************************************)
(* Claims about weightedAvg, isContainerised and isDocker (SpecUtils)      *)
(***************************************************************************)

\* the sum of a sequence of numbers
RECURSIVE Sigma(_)
Sigma(s) == IF s = <<>> THEN Whole(0) ELSE Add(Sigma(SubSeq(s, 1, Len(s) - 1)), s[Len(s)])

\* value_i * weight_i
Products(v, w) == [i \in 1..Len(v) |-> Mul(v[i], w[i])]

WeightedAvgReturned == utilsOut.called /\ utilsIn.fn = "weightedAvg"

\* C18: weightedAvg(values, weights) is sum(value_i * weight_i) /
\* sum(weight_i) for non-empty values with one weight each when the weights
\* sum to a positive value; it is NaN, never 0, for empty values whatever the
\* weights and when every weight is zero
C18_WeightedAvg ==
    WeightedAvgReturned =>
        LET v == utilsIn.arrValues
            w == utilsIn.arrWeights
        IN  /\ (v # <<>> /\ Len(w) = Len(v) /\ Gt(Sigma(w), Whole(0))) =>
                  /\ IsFinite(utilsOut.value)
                  /\ utilsOut.value = Div(Sigma(Products(v, w)), Sigma(w))
            /\ v = <<>> => IsNaN(utilsOut.value)
            /\ (Len(w) = Len(v) /\ \A i \in DOMAIN w : w[i] = Whole(0)) =>
                  IsNaN(utilsOut.value)

\* weightedAvg([3, 1], [1/2, 1]) has returned 5/3
C18_Witness ==
    /\ WeightedAvgReturned
    /\ utilsIn.arrValues = <<Whole(3), Whole(1)>>
    /\ utilsIn.arrWeights = <<Num(1, 2), Whole(1)>>
    /\ utilsOut.value = Num(5, 3)

\* the text has 'docker' at some position
HasDockerAt(text) ==
    \E i \in 1..Len(text) :
        /\ i + 5 <= Len(text)
        /\ \A j \in 0..5 : text[i + j] = DOCKER[j + 1]

\* the two checks of isDocker on the inputs of the call
MarkerFileFound == utilsIn.stat.ok

CgroupNamesDocker == utilsIn.cgroup.ok /\ HasDockerAt(utilsIn.cgroup.value)

\* C19: isContainerised returns true when the isDocker check succeeds, or
\* KUBERNETES_SERVICE_HOST is set, or CRAWLEE_CONTAINERISED is set, and false
\* only when none of the three holds
C19_IsContainerised ==
    (utilsOut.called /\ utilsIn.fn = "isContainerised") =>
        /\ ~utilsOut.threw
        /\ utilsOut.value \in BOOLEAN
        /\ utilsOut.value = FALSE <=>
              /\ ~(MarkerFileFound \/ CgroupNamesDocker)
              /\ ~utilsIn.KUBERNETES_SERVICE_HOST
              /\ ~utilsIn.CRAWLEE_CONTAINERISED

\* isContainerised has returned true where only CRAWLEE_CONTAINERISED is set
C19_Witness ==
    /\ utilsOut.called
    /\ utilsIn.fn = "isContainerised"
    /\ ~MarkerFileFound
    /\ ~CgroupNamesDocker
    /\ ~utilsIn.KUBERNETES_SERVICE_HOST
    /\ utilsIn.CRAWLEE_CONTAINERISED
    /\ utilsOut.value = TRUE

\* C20: isDocker returns true if the stat of the marker file succeeds or the
\* cgroup description contains 'docker', and false only when both checks
\* fail; a failing stat is a negative answer and the call does not reject
C20_IsDocker ==
    (utilsOut.called /\ utilsIn.fn = "isDocker") =>
        /\ ~utilsOut.threw
        /\ utilsOut.value = (MarkerFileFound \/ CgroupNamesDocker)

\* isDocker has returned true where the stat failed and the cgroup
\* description names docker after other text
C20_Witness ==
    /\ utilsOut.called
    /\ utilsIn.fn = "isDocker"
    /\ ~MarkerFileFound
    /\ utilsIn.cgroup = Resolved(<<"1", ":", "/">> \o DOCKER \o <<"/", "a">>)
    /\ ~utilsOut.threw
    /\ utilsOut.value = TRUE

(***************************************************************************)
(* Claims about previousSample (SpecCpu)                                   *)
(***************************************************************************)

\* getCpuInfo calls that are past their first await and have not settled
CallsInFlight == {k \in Callers : calls[k].pc # "idle"}

\* a <= b on numbers
Leq(a, b) == ~IsNaN(a) /\ ~IsNaN(b) /\ ~Gt(a, b)

\* C21: the values written to previousSample appear in the order the
\* samples were taken: neither half of previousSample ever decreases, and a
\* finite-quota call that has a previous sample to compare with computes
\* neither a negative containerDelta nor a negative systemDelta
C21_PreviousSampleInSamplingOrder ==
    [][/\ Leq(previousSample.containerUsage, previousSample'.containerUsage)
       /\ Leq(previousSample.systemUsage, previousSample'.systemUsage)
       /\ (QuotaReturn' /\ returned'.against # NoSample) =>
              /\ Leq(returned'.against.containerUsage, returned'.sample.containerUsage)
              /\ Leq(returned'.against.systemUsage, returned'.sample.systemUsage)]_vars

\* previousSample as the module is loaded
InitialSample == [containerUsage |-> Whole(0), systemUsage |-> Whole(0)]

\* the pairs returned by sampleCpuUsage to the calls that have not yet
\* resumed from it
SamplesDelivered == {calls[k].sample : k \in {j \in Callers : calls[j].pc = "sampled"}}

\* C22: previousSample is fully formed at every moment: it starts as
\* {containerUsage: 0, systemUsage: 0}, and every write, made by a getCpuInfo
\* call resuming from sampleCpuUsage, stores exactly the pair that one
\* sampling pass returned
C22_PreviousSampleIsOneWholeSample ==
    [][/\ previousSample' # previousSample => previousSample' \in SamplesDelivered
       /\ previousSample' = InitialSample \/ previousSample' = lastSample']_vars

\* previousSample holds the pair of the second pass, which differs from the
\* pair of the first pass in both halves
C22_Witness ==
    /\ QuotaReturn
    /\ returned.against # NoSample
    /\ returned.against.containerUsage # returned.sample.containerUsage
    /\ returned.against.systemUsage # returned.sample.systemUsage
    /\ previousSample = returned.sample


(***************************************************************************)
(* Claims about the snapshot of one tick (Spec)                            *)
(***************************************************************************)

\* the snapshot createSystemInfo builds from the two settled sampler calls
SnapshotOf(cpuOutcome, memOutcome, options) ==
    createSystemInfo(createCpuInfo(cpuOutcome, options).fields,
                     createMemoryInfo(memOutcome).fields)

\* C23: within one tick both sampler calls have settled, each with a value or
\* a caught failure, before the snapshot is built and emitted: SYSTEM_INFO is
\* emitted only by a tick that is past both awaits, the snapshot is the one
\* built from both outcomes, and the emission ends the tick, so a tick emits
\* one snapshot and not one per sampler
C23_OneSnapshotAfterBothSamplers ==
    [][emitted'.timer # 0 =>
          /\ tick[emitted'.timer].pc = "built"
          /\ tick'[emitted'.timer].pc = "idle"
          /\ emitted'.info = tick[emitted'.timer].info
          /\ emitted'.info = SnapshotOf(emitted'.cpuOutcome, emitted'.memOutcome,
                                        emitted'.options)
          /\ \A u \in TimerIds \ {emitted'.timer} : tick'[u] = tick[u]]_vars

\* a tick whose CPU sampler returned a value and whose memory sampler failed
\* has emitted its one snapshot and is over
C23_Witness ==
    /\ emitted.timer # 0
    /\ emitted.cpuOutcome.ok
    /\ ~emitted.memOutcome.ok
    /\ tick[emitted.timer].pc = "idle"
    /\ DOMAIN emitted.info = {"createdAt", "cpuCurrentUsage", "isCpuOverloaded"}


\* the sample of the last getCpuInfo call that returned a quota usage, or the
\* initial previousSample when no call has yet
LastSuccessfulSample ==
    IF lastSample = NoSample THEN InitialSample ELSE lastSample

\* the call that settled in this step rejected
RejectedReturn == returned.settled /\ ~returned.ok

\* C24: a getCpuInfo call that fails, by a rejected read or a missing
\* aggregate cpu line, leaves previousSample as it was, and a call that
\* returns a quota usage computes it from the deltas against the sample of
\* the last call that succeeded, whatever calls failed in between
C24_FailedCallKeepsPreviousSample ==
    [][/\ RejectedReturn' => previousSample' = previousSample
       /\ QuotaReturn' =>
              returned'.value
                  = cpuUsage(LastSuccessfulSample, returned'.sample,
                             Len(cpus(env, kernel)), returned'.quota,
                             returned'.period).value]_vars

\* a call has just failed in sampleCpuUsage after an earlier call succeeded,
\* and previousSample is still the pair of that earlier call
C24_Witness ==
    /\ RejectedReturn
    /\ "sampleCpuUsage" \in returned.steps
    /\ lastSample # NoSample
    /\ lastSample # InitialSample
    /\ previousSample = lastSample


(***************************************************************************)
(* Claims about init() and close() called in any order (Spec)              *)
(***************************************************************************)

\* the systemInfo intervals of the manager that have not been cleared
Running == {t \in TimerIds : timers[t].isRunning}

\* C25: after any sequence and interleaving of init() and close() calls on
\* one manager, at most one systemInfo interval is alive, and none is alive,
\* and no tick armed, when a close() completes
C25_AtMostOneTimerAndNoneAfterClose ==
    [][/\ Cardinality(Running') <= 1
       /\ CloseFinishes =>
              \A t \in TimerIds : ~timers'[t].armed /\ ~timers'[t].isRunning]_vars


(***************************************************************************)
(* Claims about the published cpuCurrentUsage (SpecCpu)                    *)
(***************************************************************************)

\* the cpuCurrentUsage createCpuInfo publishes for the value getCpuInfo
\* returned in this step
PublishedUsage ==
    createCpuInfo(Resolved(returned.value),
                  [maxUsedCpuRatio |-> maxUsedCpuRatio]).fields.cpuCurrentUsage

\* C26: whenever getCpuInfo returns a value, the cpuCurrentUsage published
\* from it is a finite number that is not negative: not NaN, not an infinity
\* and not below zero, whatever the counter samples, quota and period
C26_PublishedUsageIsFiniteAndNotNegative ==
    (returned.settled /\ returned.ok) =>
        /\ IsFinite(PublishedUsage)
        /\ Leq(Whole(0), PublishedUsage)


(***************************************************************************)
(* Claims about the units of a CpuSample (SpecCpu)                         *)
(***************************************************************************)

\* the calls to which sampleCpuUsage delivers its pair in this step
SampledNow == {k \in Callers : calls[k].pc = "sample" /\ calls'[k].pc = "sampled"}

\* C27: both halves of a CpuSample are in nanoseconds: whatever the unit of
\* the file read (nanoseconds in cpuacct.usage, microseconds on the
\* usage_usec line of cpu.stat, clock ticks in the first seven fields of the
\* 'cpu ' line of /proc/stat), the pair delivered is the CPU time the kernel
\* counted for the container and for the system, in nanoseconds
C27_BothHalvesInNanoseconds ==
    [][\A k \in SampledNow :
          /\ calls'[k].sample.containerUsage = Whole(kernel'.container * NsPerTick)
          /\ calls'[k].sample.systemUsage = Whole(kernel'.system * NsPerTick)]_vars

\* a cgroup V2 call holds the pair read from a cpu.stat with a usage_usec
\* line and a /proc/stat, both counters above zero
C27_Witness ==
    \E k \in Callers :
        /\ calls[k].pc = "sampled"
        /\ calls[k].version = "V2"
        /\ kernel.container > 0
        /\ kernel.system > 0
        /\ calls[k].sample = [containerUsage |-> Whole(kernel.container * NsPerTick),
                              systemUsage |-> Whole(kernel.system * NsPerTick)]

=============================================================================
